---------------------------- MODULE Spec2Model ----------------------------
(***************************************************************************)
(* A model of the numeric helpers of src/webgpu/util/math.ts (ULP          *)
(* distance, stepping to the adjacent f32, the correctly-rounded check and *)
(* the linear / biased range generators) and of the copies of the range    *)
(* generators inlined in out/.../builtin/inversesqrt.spec.js.              *)
(*                                                                         *)
(* The helpers are pure functions.  Each specification below draws the     *)
(* arguments of one family of helpers in its initial states and has one    *)
(* action per call the family offers; an action stores what the call       *)
(* returned (or that it threw) at the end of the sequence ret.             *)
(*                                                                         *)
(* Two representations of a JavaScript number are used.                    *)
(*  - The bit-level helpers work on a number located on the f32 lattice:   *)
(*    [k, s, m, f] is NaN, an infinity of sign s, or the finite double of  *)
(*    sign s lying f/FracSteps of the way from the f32 of magnitude bits m *)
(*    to the f32 of magnitude bits m+1 (f = 0: the f32 itself).  A u32 bit *)
(*    pattern is [s, m]: sign bit and the low 31 bits.                     *)
(*  - The range generators do arithmetic; there a number is NaN, an        *)
(*    infinity or an exact fraction n/d (the rounding of float64           *)
(*    arithmetic is not modelled).                                         *)
(***************************************************************************)
EXTENDS Integers, Sequences, FiniteSets, TLC

VARIABLES pc, op, args, ret

vars == <<pc, op, args, ret>>

---------------------------------------------------------------------------
(* Bounds of the model.                                                    *)

\* Sub-ULP positions of a double between two adjacent f32: 2^FracBits.
FracBits == 2

\* Magnitudes sampled on each side of every anchor of the f32 lattice.
Window == 2

\* Longest walk along adjacent f32 values the reference distance counts.
MaxWalk == 8

FracSteps == 2 ^ FracBits

---------------------------------------------------------------------------
(* Masks and bit patterns of the source.                                   *)

\* 0x7f800000: the exponent field of an f32.
ExponentMask == 2139095040

\* 0x7fffff: the offset diffULP subtracts from the magnitude of a normal.
SubnormalOffset == 8388607

\* The magnitude bits of the smallest normal, of 1.0 and of the largest
\* finite f32.
MinNormalMag == SubnormalOffset + 1
OneMag == 127 * MinNormalMag
MaxFiniteMag == ExponentMask - 1

Bits(s, m) == [s |-> s, m |-> m]

\* kBit.f32.* of shader/execution/builtin/builtin.js.
kBit_f32_positive_min == Bits(0, MinNormalMag)
kBit_f32_negative_max == Bits(1, MinNormalMag)
kBit_f32_subnormal_positive_min == Bits(0, 1)
kBit_f32_subnormal_negative_max == Bits(1, 1)
kBit_f32_infinity_positive == Bits(0, ExponentMask)
kBit_f32_infinity_negative == Bits(1, ExponentMask)
kBit_f32_nan_positive_s == Bits(0, ExponentMask + 1)

\* u32 & 0x80000000, u32 & 0x7fffffff, u32 & 0x7f800000 on a bit pattern
\* (m is the pattern without its sign bit).
SignBitSet(b) == b.s # 0
AndMagnitudeMask(b) == b.m
AndExponentMask(b) == (b.m \div MinNormalMag) * MinNormalMag

---------------------------------------------------------------------------
(* JavaScript numbers on the f32 lattice.                                  *)

NaN == [k |-> "nan", s |-> 0, m |-> 0, f |-> 0]
Inf(s) == [k |-> "inf", s |-> s, m |-> 0, f |-> 0]
Fin(s, m, f) == [k |-> "fin", s |-> s, m |-> m, f |-> f]

\* Number.isFinite, Number.isNaN
IsFinite(x) == x.k = "fin"
IsNaN(x) == x.k = "nan"

IsZero(x) == x.k = "fin" /\ x.m = 0 /\ x.f = 0

\* a === b on numbers: NaN equals nothing, +0 equals -0.
StrictEq(x, y) ==
  IF IsNaN(x) \/ IsNaN(y) THEN FALSE
  ELSE IF IsZero(x) /\ IsZero(y) THEN TRUE
  ELSE x = y

\* a < b on numbers.
Less(x, y) ==
  LET rank(z) == IF z.k = "inf" THEN (IF z.s = 1 THEN 0 ELSE 2) ELSE 1
      magLess(u, v) == u.m < v.m \/ (u.m = v.m /\ u.f < v.f)
  IN  IF IsNaN(x) \/ IsNaN(y) THEN FALSE
      ELSE IF rank(x) # rank(y) THEN rank(x) < rank(y)
      ELSE IF x.k = "inf" THEN FALSE
      ELSE IF IsZero(x) /\ IsZero(y) THEN FALSE
      ELSE IF x.s # y.s THEN x.s = 1
      ELSE IF x.s = 0 THEN magLess(x, y) ELSE magLess(y, x)

\* Round to nearest, ties to even, of the magnitude of a finite double.
RoundMagnitude(m, f) ==
  IF 2 * f < FracSteps THEN m
  ELSE IF 2 * f > FracSteps THEN m + 1
  ELSE IF m % 2 = 0 THEN m ELSE m + 1

\* new Uint32Array(new Float32Array([x]).buffer)[0]
Float32Bits(x) ==
  IF IsNaN(x) THEN Bits(0, ExponentMask + MinNormalMag \div 2)
  ELSE IF x.k = "inf" THEN Bits(x.s, ExponentMask)
  ELSE LET r == RoundMagnitude(x.m, x.f)
       IN  Bits(x.s, IF r >= ExponentMask THEN ExponentMask ELSE r)

\* The number an f32 bit pattern holds.
BitsToNumber(b) ==
  IF b.m > ExponentMask THEN NaN
  ELSE IF b.m = ExponentMask THEN Inf(b.s)
  ELSE Fin(b.s, b.m, 0)

\* new Float32Array([x])[0]
Float32Round(x) == BitsToNumber(Float32Bits(x))

\* A number that is exactly an f32 (NaN and the infinities included).
IsF32(x) == x.k # "fin" \/ (x.f = 0 /\ x.m <= MaxFiniteMag)

---------------------------------------------------------------------------
(* Integers wider than 31 bits: hi * WideBase + lo.                        *)

WideBase == 2 ^ 30

Wide(n) == [inf |-> FALSE, hi |-> n \div WideBase, lo |-> n % WideBase]
WideInfinity == [inf |-> TRUE, hi |-> 0, lo |-> 0]

\* x + y for 0 <= x, y < 2^31
WideSum(x, y) ==
  LET lo == (x % WideBase) + (y % WideBase)
  IN  [inf |-> FALSE,
       hi  |-> (x \div WideBase) + (y \div WideBase) + (lo \div WideBase),
       lo  |-> lo % WideBase]

WideLeq(x, y) ==
  IF y.inf THEN TRUE
  ELSE IF x.inf THEN FALSE
  ELSE x.hi < y.hi \/ (x.hi = y.hi /\ x.lo <= y.lo)

---------------------------------------------------------------------------
(* diffULP                                                                 *)

Max(x, y) == IF x >= y THEN x ELSE y
Min(x, y) == IF x <= y THEN x ELSE y

diffULP_alwaysSums(a, b) ==
  IF ~IsFinite(a) \/ ~IsFinite(b) THEN WideInfinity
  ELSE
    LET u32_a == Float32Bits(a)
        u32_b == Float32Bits(b)
        bits_a == IF AndExponentMask(u32_a) = 0 THEN 0
                  ELSE AndMagnitudeMask(u32_a) - SubnormalOffset
        bits_b == IF AndExponentMask(u32_b) = 0 THEN 0
                  ELSE AndMagnitudeMask(u32_b) - SubnormalOffset
    IN  WideSum(bits_a, bits_b)

diffULP_ignoresSign(a, b) ==
  IF ~IsFinite(a) \/ ~IsFinite(b) THEN WideInfinity
  ELSE
    LET u32_a == Float32Bits(a)
        u32_b == Float32Bits(b)
        bits_a == IF AndExponentMask(u32_a) = 0 THEN 0
                  ELSE AndMagnitudeMask(u32_a) - SubnormalOffset
        bits_b == IF AndExponentMask(u32_b) = 0 THEN 0
                  ELSE AndMagnitudeMask(u32_b) - SubnormalOffset
    IN  Wide(Max(bits_a, bits_b) - Min(bits_a, bits_b))

diffULP_offByOne(a, b) ==
  IF ~IsFinite(a) \/ ~IsFinite(b) THEN WideInfinity
  ELSE
    LET u32_a == Float32Bits(a)
        u32_b == Float32Bits(b)
        bits_a == IF AndExponentMask(u32_a) = 0 THEN 0
                  ELSE AndMagnitudeMask(u32_a) - MinNormalMag
        bits_b == IF AndExponentMask(u32_b) = 0 THEN 0
                  ELSE AndMagnitudeMask(u32_b) - MinNormalMag
    IN  IF SignBitSet(u32_a) = SignBitSet(u32_b)
        THEN Wide(Max(bits_a, bits_b) - Min(bits_a, bits_b))
        ELSE WideSum(bits_a, bits_b)

diffULP_nanIsFinite(a, b) ==
  LET u32_a == Float32Bits(a)
      u32_b == Float32Bits(b)
      bits_a == IF AndExponentMask(u32_a) = 0 THEN 0
                ELSE AndMagnitudeMask(u32_a) - SubnormalOffset
      bits_b == IF AndExponentMask(u32_b) = 0 THEN 0
                ELSE AndMagnitudeMask(u32_b) - SubnormalOffset
  IN  IF SignBitSet(u32_a) = SignBitSet(u32_b)
      THEN Wide(Max(bits_a, bits_b) - Min(bits_a, bits_b))
      ELSE WideSum(bits_a, bits_b)

diffULP(a, b) ==
  IF ~IsFinite(a) \/ ~IsFinite(b) THEN WideInfinity
  ELSE
    LET u32_a == Float32Bits(a)
        u32_b == Float32Bits(b)
        sign_a == SignBitSet(u32_a)
        sign_b == SignBitSet(u32_b)
        masked_a == AndMagnitudeMask(u32_a)
        masked_b == AndMagnitudeMask(u32_b)
        subnormal_or_zero_a == AndExponentMask(u32_a) = 0
        subnormal_or_zero_b == AndExponentMask(u32_b) = 0
        bits_a == IF subnormal_or_zero_a THEN 0 ELSE masked_a - SubnormalOffset
        bits_b == IF subnormal_or_zero_b THEN 0 ELSE masked_b - SubnormalOffset
    IN  IF sign_a = sign_b
        THEN Wide(Max(bits_a, bits_b) - Min(bits_a, bits_b))
        ELSE WideSum(bits_a, bits_b)

---------------------------------------------------------------------------
(* The sampled inputs.                                                     *)

\* Magnitudes around zero, the smallest normal, 1.0 and the largest finite
\* f32; those above MaxFiniteMag are finite doubles no f32 can hold.
Anchors == {0, MinNormalMag, OneMag, MaxFiniteMag}

Magnitudes ==
  {m \in UNION {(a - Window) .. (a + Window) : a \in Anchors} : m >= 0}

F32Magnitudes == {m \in Magnitudes : m <= MaxFiniteMag}

\* Every finite f32 of the sample, as a number.
FiniteF32s == {Fin(s, m, 0) : s \in {0, 1}, m \in F32Magnitudes}

NonFinites == {NaN, Inf(0), Inf(1)}

\* Finite doubles of the sample, the f32 among them.
FiniteDoubles ==
  {Fin(s, m, f) : s \in {0, 1}, m \in Magnitudes, f \in 0 .. (FracSteps - 1)}

Doubles == FiniteDoubles \cup NonFinites

---------------------------------------------------------------------------
(* Specification SpecULP: one call of diffULP(a, b).                       *)

InitULP ==
  /\ pc = "call"
  /\ op = "none"
  /\ args \in [a : Doubles, b : Doubles]
  /\ ret = <<>>

CallDiffULP ==
  /\ pc = "call"
  /\ pc' = "done"
  /\ op' = "diffULP"
  /\ ret' = <<diffULP(args.a, args.b)>>
  /\ UNCHANGED args

NextULP == CallDiffULP

SpecULP == InitULP /\ [][NextULP]_vars

---------------------------------------------------------------------------
(* The f32 line with every subnormal and both zeros collapsed into zero,   *)
(* walked one representable value at a time.                               *)

BitsOf(x) == Bits(x.s, x.m)

Collapsed(b) == IF b.m < MinNormalMag THEN Bits(0, 0) ELSE b

\* The next value up on the collapsed line.
CollapsedUp(b) ==
  IF b.m < MinNormalMag THEN Bits(0, MinNormalMag)
  ELSE IF b.s = 0 THEN Bits(0, b.m + 1)
  ELSE IF b.m = MinNormalMag THEN Bits(0, 0)
  ELSE Bits(1, b.m - 1)

\* Steps up from x to y, or -1 when y is not met within fuel steps.
RECURSIVE WalkUp(_, _, _)
WalkUp(x, y, fuel) ==
  IF x = y THEN 0
  ELSE IF fuel = 0 \/ (x.s = 0 /\ x.m >= MaxFiniteMag) THEN -1
  ELSE LET r == WalkUp(CollapsedUp(x), y, fuel - 1)
       IN  IF r < 0 THEN -1 ELSE r + 1

StepsBetween(a, b) ==
  LET x == Collapsed(BitsOf(a))
      y == Collapsed(BitsOf(b))
      up == WalkUp(x, y, MaxWalk)
  IN  IF up >= 0 THEN up ELSE WalkUp(y, x, MaxWalk)

IsFiniteF32(x) == IsFinite(x) /\ IsF32(x)
IsSubnormalOrZero(x) == IsFiniteF32(x) /\ x.m < MinNormalMag

DoneULP == pc = "done" /\ op = "diffULP"

\* C1: for finite f32 a and b, diffULP(a, b) is the number of single steps
\* between adjacent f32 values from a to b on the line where every
\* subnormal and both zeros are one value (checked for every pair at most
\* MaxWalk steps apart); it is 0 between any two subnormal-or-zero values
\* and 1 between zero and the smallest normal of either sign.
C1_DiffULPCountsCollapsedSteps ==
  (DoneULP /\ IsFiniteF32(args.a) /\ IsFiniteF32(args.b)) =>
    /\ StepsBetween(args.a, args.b) >= 0 =>
         ret[1] = Wide(StepsBetween(args.a, args.b))
    /\ (IsSubnormalOrZero(args.a) /\ IsSubnormalOrZero(args.b)) =>
         ret[1] = Wide(0)
    /\ (IsZero(args.a) /\ args.b.m = MinNormalMag) => ret[1] = Wide(1)
    /\ (IsZero(args.b) /\ args.a.m = MinNormalMag) => ret[1] = Wide(1)

\* Reached: a walk of four steps across zero, from a negative normal to a
\* positive normal.
C1_Witness ==
  /\ DoneULP
  /\ args.a = Fin(1, MinNormalMag + 1, 0)
  /\ args.b = Fin(0, MinNormalMag + 1, 0)
  /\ StepsBetween(args.a, args.b) = 4
  /\ ret[1] = Wide(4)

\* C2: diffULP returns Infinity whenever a or b is NaN or an infinity, and
\* a finite non-negative integer whenever both are finite.
C2_DiffULPInfinityIffNonFinite ==
  DoneULP =>
    /\ (~IsFinite(args.a) \/ ~IsFinite(args.b)) => ret[1] = WideInfinity
    /\ (IsFinite(args.a) /\ IsFinite(args.b)) =>
         ~ret[1].inf /\ ret[1].hi >= 0 /\ ret[1].lo \in 0 .. (WideBase - 1)

\* Reached: a NaN against the largest finite f32 gives Infinity.
C2_Witness ==
  /\ DoneULP
  /\ args.a = NaN
  /\ args.b = Fin(0, MaxFiniteMag, 0)
  /\ ret[1] = WideInfinity

---------------------------------------------------------------------------
(* Scalars (util/conversion.js) and the flush helpers.                     *)

Scalar(kind, value) == [kind |-> kind, value |-> value]

\* f32(value): the f32 Scalar holding value rounded to f32.
f32(value) == Scalar("f32", Float32Round(value))

\* f32Bits(bits): the f32 Scalar holding the number with these bits.
f32Bits(bits) == Scalar("f32", BitsToNumber(bits))

\* What a call that fails an assert() leaves instead of a value.
AssertionFailure == Scalar("AssertionError", NaN)

Threw(r) == r.kind = "AssertionError"

PlusZero == Fin(0, 0, 0)

flushSubnormalNumber(val) ==
  LET u32_val == Float32Bits(val)
  IN  IF AndExponentMask(u32_val) = 0 THEN PlusZero ELSE val

flushSubnormalBits_identity(val) == val

flushSubnormalBits(val) ==
  IF AndExponentMask(val) = 0 THEN Bits(0, 0) ELSE val

---------------------------------------------------------------------------
(* nextAfter                                                               *)

\* result += 1 and result -= 1 on the bits of a finite non-zero f32.
BitsPlusOne(b) == Bits(b.s, b.m + 1)
BitsMinusOne(b) == Bits(b.s, b.m - 1)

nextAfter_alwaysIncrements(val, dir, flush) ==
  IF IsNaN(val) THEN f32Bits(kBit_f32_nan_positive_s)
  ELSE IF val = Inf(0) THEN f32Bits(kBit_f32_infinity_positive)
  ELSE IF val = Inf(1) THEN f32Bits(kBit_f32_infinity_negative)
  ELSE
    LET v == IF flush THEN flushSubnormalNumber(val) ELSE val
    IN  IF IsZero(v)
        THEN IF dir
             THEN (IF flush THEN f32Bits(kBit_f32_positive_min)
                   ELSE f32Bits(kBit_f32_subnormal_positive_min))
             ELSE (IF flush THEN f32Bits(kBit_f32_negative_max)
                   ELSE f32Bits(kBit_f32_subnormal_negative_max))
        ELSE IF ~StrictEq(v, Float32Round(v)) THEN AssertionFailure
        ELSE
          LET stepped == BitsPlusOne(Float32Bits(v))
              result == IF flush THEN flushSubnormalBits(stepped) ELSE stepped
          IN  IF AndExponentMask(result) = ExponentMask
              THEN (IF dir THEN f32Bits(kBit_f32_infinity_positive)
                    ELSE f32Bits(kBit_f32_infinity_negative))
              ELSE f32Bits(result)

nextAfter(val, dir, flush) ==
  IF IsNaN(val) THEN f32Bits(kBit_f32_nan_positive_s)
  ELSE IF val = Inf(0) THEN f32Bits(kBit_f32_infinity_positive)
  ELSE IF val = Inf(1) THEN f32Bits(kBit_f32_infinity_negative)
  ELSE
    LET v == IF flush THEN flushSubnormalNumber(val) ELSE val
    IN  IF IsZero(v)
        THEN IF dir
             THEN (IF flush THEN f32Bits(kBit_f32_positive_min)
                   ELSE f32Bits(kBit_f32_subnormal_positive_min))
             ELSE (IF flush THEN f32Bits(kBit_f32_negative_max)
                   ELSE f32Bits(kBit_f32_subnormal_negative_max))
        ELSE
          LET converted == Float32Round(v)
          IN  IF ~StrictEq(v, converted) THEN AssertionFailure
              ELSE
                LET u32_val == Float32Bits(v)
                    is_positive == ~SignBitSet(u32_val)
                    stepped == IF dir = is_positive
                               THEN BitsPlusOne(u32_val)
                               ELSE BitsMinusOne(u32_val)
                    result == IF flush THEN flushSubnormalBits(stepped)
                              ELSE stepped
                IN  IF AndExponentMask(result) = ExponentMask
                    THEN (IF dir THEN f32Bits(kBit_f32_infinity_positive)
                          ELSE f32Bits(kBit_f32_infinity_negative))
                    ELSE f32Bits(result)

---------------------------------------------------------------------------
(* Specification SpecNextAfter: nextAfter(val, dir, flush), then           *)
(* nextAfter of the value it returned in the opposite direction.           *)

InitNextAfter ==
  /\ pc = "call"
  /\ op = "none"
  /\ args \in [val : Doubles, dir : BOOLEAN, flush : BOOLEAN]
  /\ ret = <<>>

CallNextAfter ==
  /\ pc = "call"
  /\ pc' = "stepped"
  /\ op' = "nextAfter"
  /\ ret' = <<nextAfter(args.val, args.dir, args.flush)>>
  /\ UNCHANGED args

CallNextAfterBack ==
  /\ pc = "stepped"
  /\ ~Threw(ret[1])
  /\ pc' = "done"
  /\ op' = "nextAfter"
  /\ ret' = Append(ret, nextAfter(ret[1].value, ~args.dir, args.flush))
  /\ UNCHANGED args

NextNextAfter == CallNextAfter \/ CallNextAfterBack

SpecNextAfter == InitNextAfter /\ [][NextNextAfter]_vars

---------------------------------------------------------------------------
(* The f32 values around a finite f32, with the infinities.                *)

Neighbourhood(v) ==
  {Fin(s, m, 0) : s \in {0, 1},
                  m \in Max(0, v.m - 2) .. Min(v.m + 2, MaxFiniteMag)}
    \cup {Inf(0), Inf(1)}

\* r is the smallest f32 strictly greater than v.
IsLeastAbove(r, v) ==
  /\ r \in Neighbourhood(v)
  /\ Less(v, r)
  /\ \A x \in Neighbourhood(v) : ~(Less(v, x) /\ Less(x, r))

\* r is the largest f32 strictly less than v.
IsGreatestBelow(r, v) ==
  /\ r \in Neighbourhood(v)
  /\ Less(r, v)
  /\ \A x \in Neighbourhood(v) : ~(Less(r, x) /\ Less(x, v))

IsFiniteNonZeroF32(x) == IsFiniteF32(x) /\ ~IsZero(x)

\* C3: for finite non-zero f32 v and flush = false, nextAfter(v, true,
\* false) is the smallest f32 strictly greater than v and nextAfter(v,
\* false, false) the largest strictly less; a step outward from the
\* largest-magnitude finite f32 returns the infinity of the direction.
C3_NextAfterIsAdjacent ==
  (pc # "call" /\ op = "nextAfter" /\ IsFiniteNonZeroF32(args.val)
     /\ ~args.flush) =>
    /\ ret[1].kind = "f32"
    /\ args.dir => IsLeastAbove(ret[1].value, args.val)
    /\ ~args.dir => IsGreatestBelow(ret[1].value, args.val)
    /\ (args.val = Fin(0, MaxFiniteMag, 0) /\ args.dir) =>
         ret[1].value = Inf(0)
    /\ (args.val = Fin(1, MaxFiniteMag, 0) /\ ~args.dir) =>
         ret[1].value = Inf(1)

\* Reached: the step down from the smallest positive normal, without
\* flushing, is the largest subnormal.
C3_Witness ==
  /\ pc = "stepped"
  /\ args = [val |-> Fin(0, MinNormalMag, 0), dir |-> FALSE, flush |-> FALSE]
  /\ ret[1] = Scalar("f32", Fin(0, SubnormalOffset, 0))

IsNormalF32(x) == IsFiniteF32(x) /\ x.m >= MinNormalMag

\* The f32 just above v is a normal number.
UpperNeighbourIsNormal(v) ==
  IF v.s = 0 THEN v.m + 1 <= MaxFiniteMag ELSE v.m - 1 >= MinNormalMag

\* Neither step of up-then-down from v crosses a flush-to-zero boundary.
NoFlushBoundary(v, flush) ==
  ~flush \/ (IsNormalF32(v) /\ UpperNeighbourIsNormal(v))

UpThenDownDone ==
  pc = "done" /\ args.dir /\ IsFiniteNonZeroF32(args.val)

\* C4 as claimed: for every finite non-zero f32 v, stepping up and then
\* down returns v, whenever flush = false or v and its upper neighbour are
\* both normal.
C4_RoundTripAsClaimed ==
  (UpThenDownDone /\ NoFlushBoundary(args.val, args.flush)) =>
    StrictEq(ret[2].value, args.val)

\* C4 amended: the same, for every such v but the largest positive finite
\* f32, whose step up is +Infinity, which nextAfter maps to itself.
C4_RoundTripBelowMax ==
  (UpThenDownDone /\ NoFlushBoundary(args.val, args.flush)
     /\ args.val # Fin(0, MaxFiniteMag, 0)) =>
    /\ ~Threw(ret[2])
    /\ StrictEq(ret[2].value, args.val)

\* Reached: up from the negative subnormal nearest zero is -0, and down
\* from there is that subnormal again.
C4_Witness ==
  /\ pc = "done"
  /\ args = [val |-> Fin(1, 1, 0), dir |-> TRUE, flush |-> FALSE]
  /\ ret[1].value = Fin(1, 0, 0)
  /\ ret[2].value = Fin(1, 1, 0)

---------------------------------------------------------------------------
(* correctlyRounded                                                        *)

Boolean(b) == [kind |-> "boolean", value |-> b]

\* A failed assert() in a function that returns a boolean.
BooleanAssertionFailure == [kind |-> "AssertionError", value |-> FALSE]

\* val === f32(0): the Scalar f32(0) has just been constructed, so it is
\* the same object as no val.
IsSameObjectAsNewF32Zero(val) == FALSE

isSubnormalScalar(val) ==
  IF val.kind # "f32" THEN FALSE
  ELSE IF IsSameObjectAsNewF32Zero(val) THEN FALSE
  ELSE AndExponentMask(Float32Bits(val.value)) = 0

flushSubnormalScalar(val) ==
  IF isSubnormalScalar(val) THEN f32(PlusZero) ELSE val

correctlyRoundedImpl(test_value, target, flush) ==
  IF test_value.kind # "f32" THEN BooleanAssertionFailure
  ELSE IF IsNaN(target) THEN Boolean(IsNaN(test_value.value))
  ELSE IF target = Inf(0)
    THEN Boolean(StrictEq(test_value.value,
                          f32Bits(kBit_f32_infinity_positive).value))
  ELSE IF target = Inf(1)
    THEN Boolean(StrictEq(test_value.value,
                          f32Bits(kBit_f32_infinity_negative).value))
  ELSE
    LET flushed_value == IF flush THEN flushSubnormalScalar(test_value)
                         ELSE test_value
        flushed_target == IF flush THEN flushSubnormalNumber(target)
                          ELSE target
        target32 == Float32Round(flushed_target)
        converted == target32
    IN  IF StrictEq(flushed_target, converted)
        THEN Boolean(StrictEq(flushed_value.value, f32(target32).value))
        ELSE
          LET after_target == IF Less(flushed_target, converted)
                              THEN f32(target32)
                              ELSE nextAfter(target32, TRUE, flush)
              before_target == IF Less(flushed_target, converted)
                               THEN nextAfter(target32, FALSE, flush)
                               ELSE f32(target32)
          IN  IF Threw(after_target) \/ Threw(before_target)
              THEN BooleanAssertionFailure
              ELSE Boolean(
                     \/ StrictEq(flushed_value.value, before_target.value)
                     \/ StrictEq(flushed_value.value, after_target.value))

correctlyRounded_noFlagAssert(test_value, target, accept_to_zero, accept_no_flush) ==
  LET result1 == IF accept_to_zero
                 THEN correctlyRoundedImpl(test_value, target, TRUE)
                 ELSE Boolean(FALSE)
  IN  IF Threw(result1) THEN result1
      ELSE IF accept_no_flush /\ ~result1.value
      THEN correctlyRoundedImpl(test_value, target, FALSE)
      ELSE result1

correctlyRounded_noFlush(test_value, target, accept_to_zero, accept_no_flush) ==
  IF ~(accept_to_zero \/ accept_no_flush) THEN BooleanAssertionFailure
  ELSE correctlyRoundedImpl(test_value, target, FALSE)

correctlyRounded(test_value, target, accept_to_zero, accept_no_flush) ==
  IF ~(accept_to_zero \/ accept_no_flush) THEN BooleanAssertionFailure
  ELSE
    LET result0 == Boolean(FALSE)
        result1 == IF accept_to_zero
                   THEN correctlyRoundedImpl(test_value, target, TRUE)
                   ELSE result0
    IN  IF Threw(result1) THEN result1
        ELSE IF accept_no_flush /\ ~result1.value
        THEN correctlyRoundedImpl(test_value, target, FALSE)
        ELSE result1

---------------------------------------------------------------------------
(* Specification SpecRounded: one call of correctlyRounded.                *)

F32Numbers == FiniteF32s \cup NonFinites

\* f32 Scalars of the sample and one Scalar that is no f32.
TestValues ==
  {Scalar("f32", x) : x \in F32Numbers} \cup {Scalar("u32", Fin(0, OneMag, 0))}

InitRounded ==
  /\ pc = "call"
  /\ op = "none"
  /\ args \in [test_value : TestValues, target : Doubles,
               accept_to_zero : BOOLEAN, accept_no_flush : BOOLEAN]
  /\ ret = <<>>

CallCorrectlyRounded ==
  /\ pc = "call"
  /\ pc' = "done"
  /\ op' = "correctlyRounded"
  /\ ret' = <<correctlyRounded(args.test_value, args.target,
                               args.accept_to_zero, args.accept_no_flush)>>
  /\ UNCHANGED args

NextRounded == CallCorrectlyRounded

SpecRounded == InitRounded /\ [][NextRounded]_vars

---------------------------------------------------------------------------
(* The two f32 values bracketing a finite number that is no f32.           *)

TowardZeroF32(t) == Fin(t.s, Min(t.m, MaxFiniteMag), 0)

AwayFromZeroF32(t) ==
  IF t.m + 1 > MaxFiniteMag THEN Inf(t.s) ELSE Fin(t.s, t.m + 1, 0)

ClosestBelow(t) == IF t.s = 0 THEN TowardZeroF32(t) ELSE AwayFromZeroF32(t)
ClosestAbove(t) == IF t.s = 0 THEN AwayFromZeroF32(t) ELSE TowardZeroF32(t)

\* A value with subnormals flushed to zero.
FlushedToZero(x) == IF IsFinite(x) /\ x.m < MinNormalMag THEN PlusZero ELSE x

\* x is one of the two bracketing f32, as it stands or after flushing both
\* to zero.
IsBracketOf(x, t) ==
  \/ StrictEq(x, ClosestBelow(t))
  \/ StrictEq(x, ClosestAbove(t))
  \/ StrictEq(FlushedToZero(x), FlushedToZero(ClosestBelow(t)))
  \/ StrictEq(FlushedToZero(x), FlushedToZero(ClosestAbove(t)))

DoneDefaultRounded ==
  /\ pc = "done" /\ op = "correctlyRounded"
  /\ args.accept_to_zero /\ args.accept_no_flush
  /\ args.test_value.kind = "f32"

IsInexactTarget(t) == IsFinite(t) /\ ~IsF32(t)

\* C5 as claimed: if target is finite and no f32, correctlyRounded(
\* test_value, target) is true if and only if test_value is the closest f32
\* greater than target or the closest f32 less than target (either one
\* also after flushing subnormals to zero); in particular it is true for
\* the nearer of the two.
C5_AcceptsExactlyTheBracket ==
  (DoneDefaultRounded /\ IsInexactTarget(args.target)) =>
    /\ ret[1] = Boolean(IsBracketOf(args.test_value.value, args.target))
    /\ StrictEq(args.test_value.value, Float32Round(args.target)) =>
         ret[1] = Boolean(TRUE)

\* Reached: a target above the largest finite f32 that rounds to +Infinity
\* rejects the largest finite f32, the closest f32 below it.
C5_Witness ==
  /\ DoneDefaultRounded
  /\ args.target = Fin(0, ExponentMask, 0)
  /\ args.test_value.value = Fin(0, MaxFiniteMag, 0)
  /\ ClosestBelow(args.target) = args.test_value.value
  /\ ret[1] = Boolean(FALSE)

\* What the code does keep of C5: the answer is the claimed one for every
\* target that does not round to an infinity, and the nearer f32 is always
\* accepted.
C5_HoldsBelowOverflow ==
  (DoneDefaultRounded /\ IsInexactTarget(args.target)) =>
    /\ IsFinite(Float32Round(args.target)) =>
         ret[1] = Boolean(IsBracketOf(args.test_value.value, args.target))
    /\ StrictEq(args.test_value.value, Float32Round(args.target)) =>
         ret[1] = Boolean(TRUE)

IsExactTarget(t) == IsFinite(t) /\ IsF32(t)

\* C6 as claimed: if target is finite and exactly an f32, correctlyRounded(
\* test_value, target) with the default flags is true if and only if
\* test_value equals target.
C6_ExactTargetAcceptsOnlyItself ==
  (DoneDefaultRounded /\ IsExactTarget(args.target)) =>
    ret[1] = Boolean(StrictEq(args.test_value.value, args.target))

\* C6 amended: it is true if and only if test_value equals target, or both
\* test_value and target are zero or subnormal (the flush-to-zero policy,
\* on by default, takes every such value for zero).
C6_ExactTargetAcceptsItselfOrFlushedZero ==
  (DoneDefaultRounded /\ IsExactTarget(args.target)) =>
    ret[1] = Boolean(
      \/ StrictEq(args.test_value.value, args.target)
      \/ (IsSubnormalOrZero(args.test_value.value)
            /\ IsSubnormalOrZero(args.target)))

\* Reached: the smallest positive subnormal as target accepts the negative
\* subnormal of largest magnitude.
C6_Witness ==
  /\ DoneDefaultRounded
  /\ args.target = Fin(0, 1, 0)
  /\ args.test_value.value = Fin(1, SubnormalOffset, 0)
  /\ ret[1] = Boolean(TRUE)

---------------------------------------------------------------------------
(* JavaScript numbers as exact fractions, for the range generators:        *)
(* NaN, an infinity (n = 1 or -1) or the fraction n/d in lowest terms.     *)

RECURSIVE Gcd(_, _)
Gcd(x, y) == IF y = 0 THEN x ELSE Gcd(y, x % y)

Abs(x) == IF x < 0 THEN -x ELSE x

QNaN == [k |-> "nan", n |-> 0, d |-> 1]
QInf(sign) == [k |-> "inf", n |-> sign, d |-> 1]

\* n/d for d > 0, in lowest terms.
Q(n, d) ==
  LET g == Gcd(Abs(n), d)
  IN  [k |-> "fin", n |-> n \div g, d |-> d \div g]

QInt(n) == Q(n, 1)

QIsFinite(x) == x.k = "fin"
QIsNaN(x) == x.k = "nan"
Sign(n) == IF n > 0 THEN 1 ELSE IF n < 0 THEN -1 ELSE 0

\* x < y, x <= y, x === y: false when either side is NaN.
QLess(x, y) ==
  IF QIsNaN(x) \/ QIsNaN(y) THEN FALSE
  ELSE IF x.k = "inf" THEN x.n < 0 /\ ~(y.k = "inf" /\ y.n < 0)
  ELSE IF y.k = "inf" THEN y.n > 0
  ELSE x.n * y.d < y.n * x.d

QEq(x, y) == ~QIsNaN(x) /\ ~QIsNaN(y) /\ x = y
QLeq(x, y) == QLess(x, y) \/ QEq(x, y)

QNeg(x) == IF QIsNaN(x) THEN QNaN ELSE [x EXCEPT !.n = -x.n]

QAdd(x, y) ==
  IF QIsNaN(x) \/ QIsNaN(y) THEN QNaN
  ELSE IF x.k = "inf" /\ y.k = "inf" THEN (IF x.n = y.n THEN x ELSE QNaN)
  ELSE IF x.k = "inf" THEN x
  ELSE IF y.k = "inf" THEN y
  ELSE Q(x.n * y.d + y.n * x.d, x.d * y.d)

QSub(x, y) == QAdd(x, QNeg(y))

QMul(x, y) ==
  IF QIsNaN(x) \/ QIsNaN(y) THEN QNaN
  ELSE IF x.k = "inf" \/ y.k = "inf"
    THEN (IF x.n = 0 \/ y.n = 0 THEN QNaN ELSE QInf(Sign(x.n) * Sign(y.n)))
  ELSE Q(x.n * y.n, x.d * y.d)

\* i / j for integers i >= 0 and j >= 0: 0/0 is NaN, i/0 is Infinity.
QDivInt(i, j) ==
  IF j = 0 THEN (IF i = 0 THEN QNaN ELSE QInf(1)) ELSE Q(i, j)

\* Math.max, Math.min: NaN when either argument is NaN.
QMax(x, y) ==
  IF QIsNaN(x) \/ QIsNaN(y) THEN QNaN ELSE IF QLess(x, y) THEN y ELSE x

QMin(x, y) ==
  IF QIsNaN(x) \/ QIsNaN(y) THEN QNaN ELSE IF QLess(y, x) THEN y ELSE x

\* Math.pow(x, c) for the exponent c = 2 of biasedRange.
QPow2(x) == QMul(x, x)

---------------------------------------------------------------------------
(* lerp, unwrapRangeParams, linearRange and biasedRange of util/math.ts.   *)

lerp_clampsToB(a, b, t) ==
  IF ~QIsFinite(a) \/ ~QIsFinite(b) THEN QNaN
  ELSE IF \/ (QLeq(a, QInt(0)) /\ QLeq(QInt(0), b))
          \/ (QLeq(QInt(0), a) /\ QLeq(b, QInt(0)))
    THEN QAdd(QMul(t, b), QMul(QSub(QInt(1), t), a))
  ELSE IF QEq(t, QInt(1)) THEN b
  ELSE
    LET x == QAdd(a, QMul(t, QSub(b, a)))
    IN  IF QLess(QInt(1), t) = QLess(a, b) THEN QMin(b, x) ELSE QMax(b, x)

lerp(a, b, t) ==
  IF ~QIsFinite(a) \/ ~QIsFinite(b) THEN QNaN
  ELSE IF \/ (QLeq(a, QInt(0)) /\ QLeq(QInt(0), b))
          \/ (QLeq(QInt(0), a) /\ QLeq(b, QInt(0)))
    THEN QAdd(QMul(t, b), QMul(QSub(QInt(1), t), a))
  ELSE IF QEq(t, QInt(1)) THEN b
  ELSE
    LET x == QAdd(a, QMul(t, QSub(b, a)))
    IN  IF QLess(QInt(1), t) = QLess(a, b) THEN QMax(b, x) ELSE QMin(b, x)

Params(ok, min, max, steps) ==
  [ok |-> ok, f32_min |-> min, f32_max |-> max, u32_num_steps |-> steps]

unwrapRangeParams_noStepsCheck(min, max, num_steps) ==
  Params(min.kind = "f32" /\ max.kind = "f32" /\ QLeq(min.value, max.value),
         min.value, max.value, num_steps.value)

unwrapRangeParams(min, max, num_steps) ==
  IF min.kind # "f32" THEN Params(FALSE, QNaN, QNaN, QNaN)
  ELSE IF max.kind # "f32" THEN Params(FALSE, QNaN, QNaN, QNaN)
  ELSE IF num_steps.kind # "u32" THEN Params(FALSE, QNaN, QNaN, QNaN)
  ELSE
    LET f32_min == min.value
        f32_max == max.value
        u32_num_steps == num_steps.value
    IN  IF ~QLeq(f32_min, f32_max) THEN Params(FALSE, QNaN, QNaN, QNaN)
        ELSE IF ~QLess(QInt(0), u32_num_steps)
          THEN Params(FALSE, QNaN, QNaN, QNaN)
        ELSE Params(TRUE, f32_min, f32_max, u32_num_steps)

Array(elements) == [kind |-> "array", value |-> elements]
ArrayAssertionFailure == [kind |-> "AssertionError", value |-> <<>>]

linearRange_fromOne(min, max, num_steps) ==
  LET p == unwrapRangeParams(min, max, num_steps)
      n == p.u32_num_steps.n
  IN  IF ~p.ok THEN ArrayAssertionFailure
      ELSE Array([i \in 1 .. n |-> lerp(p.f32_min, p.f32_max, QDivInt(i, n))])

linearRange(min, max, num_steps) ==
  LET p == unwrapRangeParams(min, max, num_steps)
      n == p.u32_num_steps.n
  IN  IF ~p.ok THEN ArrayAssertionFailure
      ELSE Array([i \in 1 .. n |->
                    lerp(p.f32_min, p.f32_max, QDivInt(i - 1, n - 1))])

biasedRange_noSquare(min, max, num_steps) ==
  LET p == unwrapRangeParams(min, max, num_steps)
      n == p.u32_num_steps.n
  IN  IF ~p.ok THEN ArrayAssertionFailure
      ELSE Array([i \in 1 .. n |->
                    lerp(p.f32_min, p.f32_max,
                         lerp(QInt(0), QInt(1), QDivInt(i - 1, n - 1)))])

biasedRange(min, max, num_steps) ==
  LET p == unwrapRangeParams(min, max, num_steps)
      n == p.u32_num_steps.n
  IN  IF ~p.ok THEN ArrayAssertionFailure
      ELSE Array([i \in 1 .. n |->
                    lerp(p.f32_min, p.f32_max,
                         QPow2(lerp(QInt(0), QInt(1),
                                    QDivInt(i - 1, n - 1))))])

---------------------------------------------------------------------------
(* The copies inlined in inversesqrt.spec.js.                              *)

inversesqrt_lerp(min, max, t) ==
  IF ~QIsFinite(min) \/ ~QIsFinite(max) \/ ~QIsFinite(t) THEN QNaN
  ELSE
    LET lo == IF QLess(max, min) THEN max ELSE min
        hi == IF QLess(max, min) THEN min ELSE max
    IN  IF QLeq(t, QInt(0)) THEN lo
        ELSE IF QLeq(QInt(1), t) THEN hi
        ELSE IF QEq(lo, hi) THEN lo
        ELSE IF QLeq(lo, QInt(0)) /\ QLeq(QInt(0), hi)
          THEN QAdd(QMul(t, hi), QMul(QSub(QInt(1), t), lo))
        ELSE QMin(hi, QAdd(lo, QMul(t, QSub(hi, lo))))

inversesqrt_unwrapRangeParams(min, max, num_steps) ==
  IF min.kind # "f32" THEN Params(FALSE, QNaN, QNaN, QNaN)
  ELSE IF max.kind # "f32" THEN Params(FALSE, QNaN, QNaN, QNaN)
  ELSE IF num_steps.kind # "u32" THEN Params(FALSE, QNaN, QNaN, QNaN)
  ELSE
    LET f32_min == min.value
        f32_max == max.value
        u32_num_steps == num_steps.value
    IN  IF ~QLess(f32_min, f32_max) THEN Params(FALSE, QNaN, QNaN, QNaN)
        ELSE IF ~QLess(QInt(0), u32_num_steps)
          THEN Params(FALSE, QNaN, QNaN, QNaN)
        ELSE Params(TRUE, f32_min, f32_max, u32_num_steps)

inversesqrt_linearRange(min, max, num_steps) ==
  LET p == inversesqrt_unwrapRangeParams(min, max, num_steps)
      n == p.u32_num_steps.n
  IN  IF ~p.ok THEN ArrayAssertionFailure
      ELSE Array([i \in 1 .. n |->
                    inversesqrt_lerp(p.f32_min, p.f32_max,
                                     QDivInt(i - 1, n - 1))])

inversesqrt_biasedRange(min, max, num_steps) ==
  LET p == inversesqrt_unwrapRangeParams(min, max, num_steps)
      n == p.u32_num_steps.n
  IN  IF ~p.ok THEN ArrayAssertionFailure
      ELSE Array([i \in 1 .. n |->
                    inversesqrt_lerp(p.f32_min, p.f32_max,
                      QPow2(inversesqrt_lerp(QInt(0), QInt(1),
                                             QDivInt(i - 1, n - 1))))])

---------------------------------------------------------------------------
(* Specification SpecRange: one call of a range generator.                 *)

\* Largest num_steps drawn, and largest magnitude of an integer endpoint.
MaxSteps == 6
MaxEndpoint == 2

RangeValues ==
  {QInt(n) : n \in (-MaxEndpoint) .. MaxEndpoint}
    \cup {Q(1, 2), QNaN, QInf(1), QInf(-1)}

EndpointScalars ==
  {Scalar("f32", v) : v \in RangeValues} \cup {Scalar("i32", QInt(0))}

StepScalars ==
  {Scalar("u32", QInt(n)) : n \in 0 .. MaxSteps}
    \cup {Scalar("i32", QInt(-1)), Scalar("f32", QInt(2))}

InitRange ==
  /\ pc = "call"
  /\ op = "none"
  /\ args \in [min : EndpointScalars, max : EndpointScalars,
               num_steps : StepScalars]
  /\ ret = <<>>

CallLinearRange ==
  /\ pc = "call"
  /\ pc' = "done"
  /\ op' = "linearRange"
  /\ ret' = <<linearRange(args.min, args.max, args.num_steps)>>
  /\ UNCHANGED args

CallBiasedRange ==
  /\ pc = "call"
  /\ pc' = "done"
  /\ op' = "biasedRange"
  /\ ret' = <<biasedRange(args.min, args.max, args.num_steps)>>
  /\ UNCHANGED args

CallInversesqrtLinearRange ==
  /\ pc = "call"
  /\ pc' = "done"
  /\ op' = "inversesqrt.linearRange"
  /\ ret' = <<inversesqrt_linearRange(args.min, args.max, args.num_steps)>>
  /\ UNCHANGED args

CallInversesqrtBiasedRange ==
  /\ pc = "call"
  /\ pc' = "done"
  /\ op' = "inversesqrt.biasedRange"
  /\ ret' = <<inversesqrt_biasedRange(args.min, args.max, args.num_steps)>>
  /\ UNCHANGED args

NextRange ==
  \/ CallLinearRange
  \/ CallBiasedRange
  \/ CallInversesqrtLinearRange
  \/ CallInversesqrtBiasedRange

SpecRange == InitRange /\ [][NextRange]_vars

---------------------------------------------------------------------------
(* Claims about the range generators.                                      *)

RangeDone == pc = "done" /\ op # "none"

\* min and max are f32 Scalars with min <= max and num_steps is a u32
\* Scalar greater than 0.
ValidRangeArgs ==
  /\ args.min.kind = "f32" /\ args.max.kind = "f32"
  /\ args.num_steps.kind = "u32"
  /\ QLeq(args.min.value, args.max.value)
  /\ QLess(QInt(0), args.num_steps.value)

Within(v, lo, hi) == QLeq(lo, v) /\ QLeq(v, hi)

\* C7 as claimed: for every f32 min <= max and u32 num_steps > 0,
\* linearRange and biasedRange (of util/math.ts and of inversesqrt.spec.js)
\* return a non-empty array whose every element v has min <= v <= max.
C7_SamplesWithinInterval ==
  (RangeDone /\ ValidRangeArgs) =>
    /\ ret[1].kind = "array"
    /\ Len(ret[1].value) > 0
    /\ \A i \in 1 .. Len(ret[1].value) :
         Within(ret[1].value[i], args.min.value, args.max.value)

\* Reached: linearRange(f32(0), f32(1), u32(1)) passes the assertions and
\* returns [NaN], from lerp(0, 1, 0 / 0).
C7_Witness ==
  /\ pc = "done" /\ op = "linearRange"
  /\ args = [min |-> Scalar("f32", QInt(0)), max |-> Scalar("f32", QInt(1)),
             num_steps |-> Scalar("u32", QInt(1))]
  /\ ret[1] = Array(<<QNaN>>)

\* What the generators of util/math.ts do keep of C7: with finite
\* min <= max and num_steps >= 2 every sample lies in [min, max].
C7_HoldsForFiniteEndsAndTwoSteps ==
  (RangeDone /\ ValidRangeArgs /\ op \in {"linearRange", "biasedRange"}
     /\ QIsFinite(args.min.value) /\ QIsFinite(args.max.value)
     /\ args.num_steps.value.n >= 2) =>
    /\ ret[1].kind = "array"
    /\ Len(ret[1].value) = args.num_steps.value.n
    /\ \A i \in 1 .. Len(ret[1].value) :
         Within(ret[1].value[i], args.min.value, args.max.value)

LinearRangeDone ==
  /\ pc = "done" /\ op = "linearRange"
  /\ ValidRangeArgs
  /\ args.num_steps.value.n >= 2

\* min + (i / (n - 1)) * (max - min)
LinearSample(min, max, i, n) ==
  QAdd(min, QMul(QDivInt(i, n - 1), QSub(max, min)))

IsLinearRange(r, min, max, n) ==
  /\ r.kind = "array"
  /\ Len(r.value) = n
  /\ r.value[1] = min
  /\ r.value[n] = max
  /\ \A i \in 0 .. (n - 1) : r.value[i + 1] = LinearSample(min, max, i, n)
  /\ \A i \in 1 .. (n - 2) :
       QSub(r.value[i + 1], r.value[i]) = QSub(r.value[i + 2], r.value[i + 1])

\* C8 as claimed: for num_steps = n >= 2 and min <= max, linearRange
\* returns exactly n samples, the i-th being min + (i/(n-1))*(max - min):
\* the first is min, the last is max, consecutive samples equally spaced.
C8_LinearRangeEvenlySpaced ==
  LinearRangeDone =>
    IsLinearRange(ret[1], args.min.value, args.max.value,
                  args.num_steps.value.n)

\* C8 amended: the same for finite min <= max (an infinite endpoint makes
\* every sample NaN).  The fractions are exact: the equality is that of
\* exact arithmetic.
C8_LinearRangeEvenlySpacedFinite ==
  (LinearRangeDone /\ QIsFinite(args.min.value)
     /\ QIsFinite(args.max.value)) =>
    IsLinearRange(ret[1], args.min.value, args.max.value,
                  args.num_steps.value.n)

\* Reached: linearRange(0, 1, 5) = [0, 0.25, 0.5, 0.75, 1].
C8_Witness ==
  /\ pc = "done" /\ op = "linearRange"
  /\ args = [min |-> Scalar("f32", QInt(0)), max |-> Scalar("f32", QInt(1)),
             num_steps |-> Scalar("u32", QInt(5))]
  /\ ret[1] = Array(<<QInt(0), Q(1, 4), Q(1, 2), Q(3, 4), QInt(1)>>)

BiasedUnitRangeDone ==
  /\ pc = "done" /\ op \in {"biasedRange", "inversesqrt.biasedRange"}
  /\ args.min = Scalar("f32", QInt(0))
  /\ args.max = Scalar("f32", QInt(1))
  /\ args.num_steps.kind = "u32"
  /\ args.num_steps.value.n >= 2

\* C9: for every n >= 2, biasedRange(0, 1, n) returns n strictly
\* increasing samples within [0, 1], the i-th being (i/(n-1))^2; every
\* sample is <= the linearRange(0, 1, n) sample at the same index, and
\* every gap between consecutive samples lying in the first half of the
\* array (the later of the two at a 0-based index <= (n-1)/2) is smaller
\* than the linear gap 1/(n-1).
C9_BiasedRangeIsQuadratic ==
  BiasedUnitRangeDone =>
    LET n == args.num_steps.value.n
        r == ret[1].value
        linear == linearRange(args.min, args.max, args.num_steps).value
    IN  /\ ret[1].kind = "array"
        /\ Len(r) = n
        /\ \A i \in 1 .. n : r[i] = Q((i - 1) * (i - 1), (n - 1) * (n - 1))
        /\ \A i \in 1 .. n : Within(r[i], QInt(0), QInt(1))
        /\ \A i \in 1 .. (n - 1) : QLess(r[i], r[i + 1])
        /\ \A i \in 1 .. n : QLeq(r[i], linear[i])
        /\ \A i \in 1 .. (n - 1) :
             2 * i < n => QLess(QSub(r[i + 1], r[i]), Q(1, n - 1))

\* Reached: biasedRange(0, 1, 5) = [0, 1/16, 1/4, 9/16, 1].
C9_Witness ==
  /\ pc = "done" /\ op = "biasedRange"
  /\ args = [min |-> Scalar("f32", QInt(0)), max |-> Scalar("f32", QInt(1)),
             num_steps |-> Scalar("u32", QInt(5))]
  /\ ret[1] = Array(<<QInt(0), Q(1, 16), Q(1, 4), Q(9, 16), QInt(1)>>)

\* C10: linearRange and biasedRange (of util/math.ts and of
\* inversesqrt.spec.js) fail an assertion and return no array whenever
\* max < min, num_steps <= 0, min or max is no f32 Scalar, or num_steps is
\* no u32 Scalar.
C10_RangePreconditionsAsserted ==
  (RangeDone /\ (\/ QLess(args.max.value, args.min.value)
                 \/ QLeq(args.num_steps.value, QInt(0))
                 \/ args.min.kind # "f32"
                 \/ args.max.kind # "f32"
                 \/ args.num_steps.kind # "u32")) =>
    ret[1] = ArrayAssertionFailure

\* Reached: biasedRange(f32(1), f32(2), u32(0)) fails its assertion.
C10_Witness ==
  /\ pc = "done" /\ op = "biasedRange"
  /\ args = [min |-> Scalar("f32", QInt(1)), max |-> Scalar("f32", QInt(2)),
             num_steps |-> Scalar("u32", QInt(0))]
  /\ ret[1] = ArrayAssertionFailure

---------------------------------------------------------------------------
(* Further claims about nextAfter.                                         *)

\* A finite non-zero number that is not exactly an f32.
IsInexpressible(v) == IsFinite(v) /\ ~IsZero(v) /\ ~IsF32(v)

NextAfterCalled == pc # "call" /\ op = "nextAfter"

\* C11 as claimed: nextAfter(val, dir, flush) fails its assertion for every
\* finite non-zero val that is not exactly an f32, for both values of dir
\* and of flush; it never returns a Scalar for such a val.
C11_AssertsOnEveryInexpressible ==
  (NextAfterCalled /\ IsInexpressible(args.val)) => Threw(ret[1])

\* Reached: with flush = true the number 1.25 * 2^-149, which no f32
\* holds, is flushed to 0 before the assertion, and nextAfter returns the
\* smallest positive normal.
C11_Witness ==
  /\ pc = "stepped"
  /\ args = [val |-> Fin(0, 1, 1), dir |-> TRUE, flush |-> TRUE]
  /\ IsInexpressible(args.val)
  /\ ret[1] = f32Bits(kBit_f32_positive_min)

\* What the code does keep of C11: the assertion fails for every such val
\* unless flush is true and val rounds to a subnormal or zero f32.
C11_HoldsUnlessFlushed ==
  (NextAfterCalled /\ IsInexpressible(args.val)
     /\ (~args.flush \/ Float32Bits(args.val).m >= MinNormalMag)) =>
    Threw(ret[1])

\* C13: with flush = true nextAfter takes every subnormal input for zero
\* and never returns a subnormal: from zero or a subnormal of either sign
\* it returns the smallest positive normal when dir is true and the
\* negative normal of smallest magnitude when dir is false, and a step
\* from the smallest-magnitude normal towards zero returns zero.  With
\* flush = false, from +0 or -0 it returns the smallest-magnitude
\* subnormal whose sign is that of the direction.
C13_FlushTreatsSubnormalsAsZero ==
  NextAfterCalled =>
    /\ args.flush =>
         ~(IsFinite(ret[1].value) /\ ~IsZero(ret[1].value)
             /\ ret[1].value.m < MinNormalMag)
    /\ (args.flush /\ IsSubnormalOrZero(args.val) /\ args.dir) =>
         ret[1] = Scalar("f32", Fin(0, MinNormalMag, 0))
    /\ (args.flush /\ IsSubnormalOrZero(args.val) /\ ~args.dir) =>
         ret[1] = Scalar("f32", Fin(1, MinNormalMag, 0))
    /\ (args.flush /\ args.val = Fin(0, MinNormalMag, 0) /\ ~args.dir) =>
         ret[1].kind = "f32" /\ IsZero(ret[1].value)
    /\ (args.flush /\ args.val = Fin(1, MinNormalMag, 0) /\ args.dir) =>
         ret[1].kind = "f32" /\ IsZero(ret[1].value)
    /\ (~args.flush /\ IsZero(args.val) /\ args.dir) =>
         ret[1] = Scalar("f32", Fin(0, 1, 0))
    /\ (~args.flush /\ IsZero(args.val) /\ ~args.dir) =>
         ret[1] = Scalar("f32", Fin(1, 1, 0))

\* Reached: with flush = true the step up from the negative subnormal of
\* largest magnitude is the smallest positive normal.
C13_Witness ==
  /\ pc = "stepped"
  /\ args = [val |-> Fin(1, SubnormalOffset, 0), dir |-> TRUE, flush |-> TRUE]
  /\ ret[1] = Scalar("f32", Fin(0, MinNormalMag, 0))

---------------------------------------------------------------------------
(* The flag assertion of correctlyRounded.                                 *)

RoundedCalled == pc = "done" /\ op = "correctlyRounded"

\* C12: correctlyRounded fails its assertion for every test_value and
\* target when accept_to_zero and accept_no_flush are both false, and
\* fails no assertion for an f32 test_value when at least one is true.
C12_AssertsExactlyWithoutFlags ==
  RoundedCalled =>
    /\ (~args.accept_to_zero /\ ~args.accept_no_flush) => Threw(ret[1])
    /\ (args.test_value.kind = "f32"
          /\ (args.accept_to_zero \/ args.accept_no_flush)) =>
         ret[1].kind = "boolean"

\* Reached: both flags false, an f32 test_value equal to the target, and
\* the call fails its assertion.
C12_Witness ==
  /\ RoundedCalled
  /\ ~args.accept_to_zero /\ ~args.accept_no_flush
  /\ args.test_value = Scalar("f32", Fin(0, OneMag, 0))
  /\ args.target = Fin(0, OneMag, 0)
  /\ ret[1] = BooleanAssertionFailure

---------------------------------------------------------------------------
(* diffULP of a number and itself.                                         *)

\* C14: for every finite a, diffULP(a, a) = 0.
C14_DiffULPOfSelfIsZero ==
  (DoneULP /\ IsFinite(args.a) /\ args.b = args.a) => ret[1] = Wide(0)

\* Reached: diffULP(a, a) = 0 for a normal number a that is no f32.
C14_Witness ==
  /\ DoneULP
  /\ args.a = Fin(1, OneMag, 1)
  /\ args.b = args.a
  /\ ret[1] = Wide(0)

---------------------------------------------------------------------------
(* Specification SpecLerp: one call of lerp(a, b, t), in exact fractions   *)
(* (the rounding of a float64 operation is not modelled).                  *)

\* Fractions t inside and outside [0, 1], NaN and the infinities.
LerpFractions == RangeValues \cup {Q(1, 3), Q(3, 2), Q(-1, 2)}

InitLerp ==
  /\ pc = "call"
  /\ op = "none"
  /\ args \in [a : RangeValues, b : RangeValues, t : LerpFractions]
  /\ ret = <<>>

CallLerp ==
  /\ pc = "call"
  /\ pc' = "done"
  /\ op' = "lerp"
  /\ ret' = <<lerp(args.a, args.b, args.t)>>
  /\ UNCHANGED args

NextLerp == CallLerp

SpecLerp == InitLerp /\ [][NextLerp]_vars

LerpDone == pc = "done" /\ op = "lerp"

\* C16: for finite a and b, lerp(a, b, 0) = a, lerp(a, b, 1) = b and for
\* any other finite t the result is a + t * (b - a); when a or b is not
\* finite, lerp returns NaN for every t.
C16_LerpInterpolates ==
  LerpDone =>
    IF QIsFinite(args.a) /\ QIsFinite(args.b)
    THEN /\ args.t = QInt(0) => ret[1] = args.a
         /\ args.t = QInt(1) => ret[1] = args.b
         /\ QIsFinite(args.t) =>
              ret[1] = QAdd(args.a, QMul(args.t, QSub(args.b, args.a)))
    ELSE ret[1] = QNaN

\* Reached: an extrapolation past b between endpoints of one sign,
\* lerp(1, 2, 3/2) = 5/2.
C16_Witness ==
  /\ LerpDone
  /\ args = [a |-> QInt(1), b |-> QInt(2), t |-> Q(3, 2)]
  /\ ret[1] = Q(5, 2)

---------------------------------------------------------------------------
(* Specification SpecULPOrder: diffULP(a, b), then diffULP(a, c), for      *)
(* finite f32 a, b and c.                                                  *)

InitULPOrder ==
  /\ pc = "call"
  /\ op = "none"
  /\ args \in [a : FiniteF32s, b : FiniteF32s, c : FiniteF32s]
  /\ ret = <<>>

CallDiffULPNear ==
  /\ pc = "call"
  /\ pc' = "near"
  /\ op' = "diffULP"
  /\ ret' = <<diffULP(args.a, args.b)>>
  /\ UNCHANGED args

CallDiffULPFar ==
  /\ pc = "near"
  /\ pc' = "done"
  /\ op' = "diffULP"
  /\ ret' = Append(ret, diffULP(args.a, args.c))
  /\ UNCHANGED args

NextULPOrder == CallDiffULPNear \/ CallDiffULPFar

SpecULPOrder == InitULPOrder /\ [][NextULPOrder]_vars

\* x <= y as JavaScript numbers.
NumberLeq(x, y) == Less(x, y) \/ StrictEq(x, y)

WideLess(x, y) == WideLeq(x, y) /\ x # y

\* C15: for finite f32 a <= b <= c, diffULP(a, b) <= diffULP(a, c), and
\* the inequality is strict when b and c are distinct normal numbers.
C15_DiffULPMonotone ==
  (pc = "done" /\ Len(ret) = 2
     /\ NumberLeq(args.a, args.b) /\ NumberLeq(args.b, args.c)) =>
    /\ WideLeq(ret[1], ret[2])
    /\ (IsNormalF32(args.b) /\ IsNormalF32(args.c) /\ args.b # args.c) =>
         WideLess(ret[1], ret[2])

\* Reached: a negative a below two distinct positive normals b < c, with
\* diffULP(a, b) < diffULP(a, c).
C15_Witness ==
  /\ pc = "done" /\ Len(ret) = 2
  /\ args.a.s = 1 /\ IsNormalF32(args.a)
  /\ args.b.s = 0 /\ IsNormalF32(args.b)
  /\ IsNormalF32(args.c) /\ Less(args.b, args.c)
  /\ WideLess(ret[1], ret[2])

---------------------------------------------------------------------------
(* align and roundDown, in exact fractions.                                *)

MaxN == 12
MaxAlignment == 5

\* Number.isInteger(x)
IsInteger(x) == QIsFinite(x) /\ x.d = 1

\* x / y for finite x and finite y > 0
QDiv(x, y) == Q(x.n * y.d, x.d * y.n)

\* Math.ceil and Math.floor
MathCeil(x) == IF QIsFinite(x) THEN QInt(-((-x.n) \div x.d)) ELSE x
MathFloor(x) == IF QIsFinite(x) THEN QInt(x.n \div x.d) ELSE x

\* A failed assert() in a function that returns a number.
NumberAssertionFailure == [k |-> "AssertionError", n |-> 0, d |-> 1]

align_roundsDown(n, alignment) ==
  IF ~(IsInteger(n) /\ QLeq(QInt(0), n)) THEN NumberAssertionFailure
  ELSE IF ~(IsInteger(alignment) /\ QLess(QInt(0), alignment))
    THEN NumberAssertionFailure
  ELSE QMul(MathFloor(QDiv(n, alignment)), alignment)

align(n, alignment) ==
  IF ~(IsInteger(n) /\ QLeq(QInt(0), n)) THEN NumberAssertionFailure
  ELSE IF ~(IsInteger(alignment) /\ QLess(QInt(0), alignment))
    THEN NumberAssertionFailure
  ELSE QMul(MathCeil(QDiv(n, alignment)), alignment)

roundDown(n, alignment) ==
  IF ~(IsInteger(n) /\ QLeq(QInt(0), n)) THEN NumberAssertionFailure
  ELSE IF ~(IsInteger(alignment) /\ QLess(QInt(0), alignment))
    THEN NumberAssertionFailure
  ELSE QMul(MathFloor(QDiv(n, alignment)), alignment)

---------------------------------------------------------------------------
(* Specification SpecAlign: one call of align or of roundDown.             *)

\* Integers from -1 up, and a number that is no integer.
AlignCounts == {QInt(n) : n \in (-1) .. MaxN} \cup {Q(1, 2)}
Alignments == {QInt(n) : n \in 0 .. MaxAlignment} \cup {Q(1, 2)}

InitAlign ==
  /\ pc = "call"
  /\ op = "none"
  /\ args \in [n : AlignCounts, alignment : Alignments]
  /\ ret = <<>>

CallAlign ==
  /\ pc = "call"
  /\ pc' = "done"
  /\ op' = "align"
  /\ ret' = <<align(args.n, args.alignment)>>
  /\ UNCHANGED args

CallRoundDown ==
  /\ pc = "call"
  /\ pc' = "done"
  /\ op' = "roundDown"
  /\ ret' = <<roundDown(args.n, args.alignment)>>
  /\ UNCHANGED args

NextAlign == CallAlign \/ CallRoundDown

SpecAlign == InitAlign /\ [][NextAlign]_vars

\* The arguments are an integer n >= 0 and an integer alignment > 0.
AlignArgsValid ==
  /\ IsInteger(args.n) /\ args.n.n >= 0
  /\ IsInteger(args.alignment) /\ args.alignment.n > 0

IsMultiple(k, a) == k % a = 0

\* C17: for an integer n >= 0 and an integer alignment > 0,
\* align(n, alignment) is the smallest multiple of alignment that is >= n
\* and roundDown(n, alignment) the largest multiple of alignment that is
\* <= n; each returns n exactly when n is already a multiple.
C17_AlignAndRoundDownAreNearestMultiples ==
  (pc = "done" /\ op \in {"align", "roundDown"} /\ AlignArgsValid) =>
    LET n == args.n.n
        a == args.alignment.n
        r == ret[1]
    IN  /\ IsInteger(r) /\ IsMultiple(r.n, a)
        /\ op = "align" =>
             /\ r.n >= n
             /\ \A k \in 0 .. (n + a) : (IsMultiple(k, a) /\ k >= n) => r.n <= k
        /\ op = "roundDown" =>
             /\ r.n <= n
             /\ \A k \in 0 .. n : IsMultiple(k, a) => k <= r.n
        /\ (r.n = n) <=> IsMultiple(n, a)

\* Reached: align(7, 3) = 9.
C17_Witness ==
  /\ pc = "done" /\ op = "align"
  /\ args = [n |-> QInt(7), alignment |-> QInt(3)]
  /\ ret[1] = QInt(9)

---------------------------------------------------------------------------
(* clamp, and specification SpecClamp: clamp(n, {min, max}), then clamp    *)
(* of the value it returned to the same range.                             *)

clamp_noUpperBound(n, min, max) ==
  IF ~QLeq(min, max) THEN NumberAssertionFailure
  ELSE QMax(n, min)

clamp(n, min, max) ==
  IF ~QLeq(min, max) THEN NumberAssertionFailure
  ELSE QMin(QMax(n, min), max)

InitClamp ==
  /\ pc = "call"
  /\ op = "none"
  /\ args \in [n : RangeValues, min : RangeValues, max : RangeValues]
  /\ ret = <<>>

CallClamp ==
  /\ pc = "call"
  /\ pc' = "clamped"
  /\ op' = "clamp"
  /\ ret' = <<clamp(args.n, args.min, args.max)>>
  /\ UNCHANGED args

CallClampAgain ==
  /\ pc = "clamped"
  /\ ret[1] # NumberAssertionFailure
  /\ pc' = "done"
  /\ op' = "clamp"
  /\ ret' = Append(ret, clamp(ret[1], args.min, args.max))
  /\ UNCHANGED args

NextClamp == CallClamp \/ CallClampAgain

SpecClamp == InitClamp /\ [][NextClamp]_vars

ClampCalled == pc # "call" /\ op = "clamp"

\* The three cases of C18 and the interval they imply.
ClampsIntoRange ==
  /\ (QLeq(args.min, args.n) /\ QLeq(args.n, args.max)) => ret[1] = args.n
  /\ QLess(args.n, args.min) => ret[1] = args.min
  /\ QLess(args.max, args.n) => ret[1] = args.max
  /\ QLeq(args.min, ret[1]) /\ QLeq(ret[1], args.max)

\* C18 as claimed: clamp(n, {min, max}) fails its assertion when
\* max < min; otherwise it returns n when min <= n <= max, min when
\* n < min and max when n > max, so that the result lies in [min, max] and
\* clamping twice equals clamping once.
C18_ClampAsClaimed ==
  ClampCalled =>
    IF QLess(args.max, args.min) THEN ret[1] = NumberAssertionFailure
    ELSE /\ ClampsIntoRange
         /\ pc = "done" => ret[2] = ret[1]

\* C18 as the code has it: the assertion also fails when min or max is
\* NaN; otherwise clamp(NaN, ...) is NaN, and for every other n the three
\* cases hold and the result lies in [min, max]; clamping the result again
\* returns the same value.
C18_ClampOfNumbers ==
  ClampCalled =>
    IF QIsNaN(args.min) \/ QIsNaN(args.max) \/ QLess(args.max, args.min)
    THEN ret[1] = NumberAssertionFailure
    ELSE /\ IF QIsNaN(args.n) THEN ret[1] = QNaN ELSE ClampsIntoRange
         /\ pc = "done" => ret[2] = ret[1]

\* Reached: clamp(2, {min: -1, max: 1}) = 1, and clamping 1 again gives 1.
C18_Witness ==
  /\ pc = "done" /\ op = "clamp"
  /\ args = [n |-> QInt(2), min |-> QInt(-1), max |-> QInt(1)]
  /\ ret = <<QInt(1), QInt(1)>>

---------------------------------------------------------------------------
(* Specification SpecScalar: one call of isSubnormalScalar or of           *)
(* flushSubnormalScalar.                                                   *)

\* The sampled f32 Scalars and Scalars of other kinds, zero among them.
ScalarValues ==
  TestValues \cup {Scalar("i32", PlusZero), Scalar("u32", PlusZero),
                   Scalar("i32", Fin(1, OneMag, 0))}

InitScalar ==
  /\ pc = "call"
  /\ op = "none"
  /\ args \in [val : ScalarValues]
  /\ ret = <<>>

CallIsSubnormalScalar ==
  /\ pc = "call"
  /\ pc' = "done"
  /\ op' = "isSubnormalScalar"
  /\ ret' = <<Boolean(isSubnormalScalar(args.val))>>
  /\ UNCHANGED args

CallFlushSubnormalScalar ==
  /\ pc = "call"
  /\ pc' = "done"
  /\ op' = "flushSubnormalScalar"
  /\ ret' = <<flushSubnormalScalar(args.val)>>
  /\ UNCHANGED args

NextScalar == CallIsSubnormalScalar \/ CallFlushSubnormalScalar

SpecScalar == InitScalar /\ [][NextScalar]_vars

IsSubnormalScalarDone == pc = "done" /\ op = "isSubnormalScalar"

\* An f32 Scalar whose value is a subnormal other than zero.
HoldsNonZeroSubnormal(val) ==
  /\ val.kind = "f32"
  /\ IsFinite(val.value) /\ ~IsZero(val.value)
  /\ val.value.m < MinNormalMag

\* C19 as claimed: isSubnormalScalar(val) is false for every Scalar that
\* holds zero (f32(0) as well as -0) and for every Scalar that is no
\* f32, and true exactly for the f32 Scalars whose value is a non-zero
\* subnormal.
C19_ZeroIsNotSubnormal ==
  IsSubnormalScalarDone =>
    ret[1] = Boolean(HoldsNonZeroSubnormal(args.val))

\* Reached: isSubnormalScalar(f32(0)) returns true.
C19_Witness ==
  /\ IsSubnormalScalarDone
  /\ args.val = f32(PlusZero)
  /\ ret[1] = Boolean(TRUE)

\* What the code does keep of C19: the answer is as claimed for every
\* Scalar that is no f32 zero, and true for the f32 Scalars holding +0
\* or -0.
C19_HoldsExceptForZero ==
  IsSubnormalScalarDone =>
    IF args.val.kind = "f32" /\ IsZero(args.val.value)
    THEN ret[1] = Boolean(TRUE)
    ELSE ret[1] = Boolean(HoldsNonZeroSubnormal(args.val))

---------------------------------------------------------------------------
(* The mapAsync test of the out-of-memory buffer tests: specification      *)
(* SpecMapAsync runs one case of the test, statement by statement.  ret is *)
(* the list of what the test has called and expected so far; what the      *)
(* device under test answers is chosen freely and recorded as met.         *)

\* Number.MAX_SAFE_INTEGER - 7 = 2^53 - 8, and 0x20_0000_0000 = 2^37
kMaxSafeMultipleOf8 == [inf |-> FALSE, hi |-> 2 ^ 23 - 1, lo |-> WideBase - 8]
Size128GB == [inf |-> FALSE, hi |-> 128, lo |-> 0]

oomAndSizeParams ==
  UNION {{[oom |-> oom, size |-> size] :
            size \in IF oom THEN {kMaxSafeMultipleOf8, Size128GB}
                     ELSE {Wide(16)}} :
         oom \in BOOLEAN}

MapAsyncParams ==
  {[oom |-> p.oom, size |-> p.size, write |-> write] :
     p \in oomAndSizeParams, write \in BOOLEAN}

\* One statement of the test: the check it makes (expectGPUError,
\* shouldReject, shouldThrow, expect, or none), the error or condition it
\* expects, the call it is made on, and whether the device met it.
Expectation(check, expected, call, met) ==
  [check |-> check, expected |-> expected, call |-> call, met |-> met]

InitMapAsync ==
  /\ pc = "createBuffer"
  /\ op = "none"
  /\ args \in MapAsyncParams
  /\ ret = <<>>

\* t.expectGPUError('out-of-memory', () => t.device.createBuffer(..), oom)
CreateBuffer ==
  /\ pc = "createBuffer"
  /\ pc' = "mapAsync"
  /\ op' = IF args.write THEN "createBuffer MAP_WRITE"
           ELSE "createBuffer MAP_READ"
  /\ \E met \in BOOLEAN :
       ret' = Append(ret,
                IF args.oom
                THEN Expectation("expectGPUError", "out-of-memory",
                                 "createBuffer", met)
                ELSE Expectation("none", "none", "createBuffer", TRUE))
  /\ UNCHANGED args

\* t.expectGPUError('validation', () => buffer.mapAsync(..), oom)
MapAsync ==
  /\ pc = "mapAsync"
  /\ pc' = IF args.oom THEN "shouldReject" ELSE "await"
  /\ op' = IF args.write THEN "mapAsync WRITE" ELSE "mapAsync READ"
  /\ \E met \in BOOLEAN :
       ret' = Append(ret,
                IF args.oom
                THEN Expectation("expectGPUError", "validation",
                                 "mapAsync", met)
                ELSE Expectation("none", "none", "mapAsync", TRUE))
  /\ UNCHANGED args

\* t.shouldReject('OperationError', promise)
ShouldReject ==
  /\ pc = "shouldReject"
  /\ pc' = "shouldThrow"
  /\ op' = "shouldReject"
  /\ \E met \in BOOLEAN :
       ret' = Append(ret, Expectation("shouldReject", "OperationError",
                                      "mapAsync", met))
  /\ UNCHANGED args

\* t.shouldThrow('OperationError', () => { buffer.getMappedRange(); })
ShouldThrow ==
  /\ pc = "shouldThrow"
  /\ pc' = "unmapError"
  /\ op' = "shouldThrow"
  /\ \E met \in BOOLEAN :
       ret' = Append(ret, Expectation("shouldThrow", "OperationError",
                                      "getMappedRange", met))
  /\ UNCHANGED args

\* t.expectGPUError('validation', () => buffer.unmap())
ExpectUnmapError ==
  /\ pc = "unmapError"
  /\ pc' = "done"
  /\ op' = "unmap"
  /\ \E met \in BOOLEAN :
       ret' = Append(ret, Expectation("expectGPUError", "validation",
                                      "unmap", met))
  /\ UNCHANGED args

\* await promise: a rejection is thrown and ends the test.
AwaitPromise ==
  /\ pc = "await"
  /\ op' = "await"
  /\ \E resolved \in BOOLEAN :
       /\ pc' = IF resolved THEN "mappedRange" ELSE "failed"
       /\ ret' = Append(ret, Expectation("await", "resolved",
                                         "mapAsync", resolved))
  /\ UNCHANGED args

\* const arraybuffer = buffer.getMappedRange();
\* t.expect(arraybuffer.byteLength === size)
ExpectMappedRange ==
  /\ pc = "mappedRange"
  /\ pc' = "detach"
  /\ op' = "getMappedRange"
  /\ \E byteLength \in {args.size, Wide(0)} :
       ret' = Append(ret, Expectation("expect", "byteLength === size",
                                      "getMappedRange",
                                      byteLength = args.size))
  /\ UNCHANGED args

\* buffer.unmap(); t.expect(arraybuffer.byteLength === 0, ..)
ExpectDetached ==
  /\ pc = "detach"
  /\ pc' = "done"
  /\ op' = "unmap"
  /\ \E byteLength \in {args.size, Wide(0)} :
       ret' = Append(ret, Expectation("expect", "byteLength === 0",
                                      "unmap", byteLength = Wide(0)))
  /\ UNCHANGED args

NextMapAsync ==
  \/ CreateBuffer
  \/ MapAsync
  \/ ShouldReject
  \/ ShouldThrow
  \/ ExpectUnmapError
  \/ AwaitPromise
  \/ ExpectMappedRange
  \/ ExpectDetached

SpecMapAsync == InitMapAsync /\ [][NextMapAsync]_vars

\* What the finished test expected, in order.
Expected == [i \in 1 .. Len(ret) |-> <<ret[i].check, ret[i].expected, ret[i].call>>]

MapAsyncDone == pc = "done" /\ op = "unmap"

ExpectedWithoutOom ==
  << <<"none", "none", "createBuffer">>,
     <<"none", "none", "mapAsync">>,
     <<"await", "resolved", "mapAsync">>,
     <<"expect", "byteLength === size", "getMappedRange">>,
     <<"expect", "byteLength === 0", "unmap">> >>

\* C20 as claimed: with oom = true the test expects, in order, an
\* out-of-memory GPU error from createBuffer, a validation GPU error from
\* mapAsync and the rejection of its promise with OperationError,
\* getMappedRange to throw OperationError and unmap() to throw an
\* OperationError; with oom = false it expects no error, a mapped range
\* whose byteLength is size, and byteLength 0 after unmap().
C20_UnmapThrowsOperationError ==
  MapAsyncDone =>
    IF args.oom
    THEN Expected =
           << <<"expectGPUError", "out-of-memory", "createBuffer">>,
              <<"expectGPUError", "validation", "mapAsync">>,
              <<"shouldReject", "OperationError", "mapAsync">>,
              <<"shouldThrow", "OperationError", "getMappedRange">>,
              <<"shouldThrow", "OperationError", "unmap">> >>
    ELSE Expected = ExpectedWithoutOom

\* Reached: a case with oom = true ends by expecting a validation GPU
\* error from unmap().
C20_Witness ==
  /\ MapAsyncDone
  /\ args.oom /\ args.size = kMaxSafeMultipleOf8
  /\ Len(ret) = 5
  /\ ret[5] = Expectation("expectGPUError", "validation", "unmap", TRUE)

\* What the test does expect: as claimed, but for unmap() with oom = true,
\* from which it expects a validation GPU error and no exception.
C20_UnmapRaisesValidationError ==
  MapAsyncDone =>
    IF args.oom
    THEN Expected =
           << <<"expectGPUError", "out-of-memory", "createBuffer">>,
              <<"expectGPUError", "validation", "mapAsync">>,
              <<"shouldReject", "OperationError", "mapAsync">>,
              <<"shouldThrow", "OperationError", "getMappedRange">>,
              <<"expectGPUError", "validation", "unmap">> >>
    ELSE Expected = ExpectedWithoutOom

---------------------------------------------------------------------------
(* Specification SpecULPStep: nextAfter(val, dir, flush), then diffULP of  *)
(* val and the value nextAfter returned.                                   *)

CallDiffULPOfStep ==
  /\ pc = "stepped"
  /\ ~Threw(ret[1])
  /\ pc' = "measured"
  /\ op' = "diffULP"
  /\ ret' = Append(ret, diffULP(args.val, ret[1].value))
  /\ UNCHANGED args

NextULPStep == CallNextAfter \/ CallDiffULPOfStep

SpecULPStep == InitNextAfter /\ [][NextULPStep]_vars

\* The step leaves the largest-magnitude finite f32 away from zero.
StepsOutwardFromMax ==
  args.val.m = MaxFiniteMag /\ args.dir = (args.val.s = 0)

\* C21: for every finite f32 a and either direction, except a step
\* outward from the largest-magnitude finite f32,
\* diffULP(a, nextAfter(a, dir, true)) = 1; this includes the step from
\* zero or a subnormal to the smallest normal and the step from the
\* smallest normal to zero.
C21_FlushedStepIsOneULP ==
  (pc = "measured" /\ args.flush /\ IsFiniteF32(args.val)
     /\ ~StepsOutwardFromMax) =>
    ret[2] = Wide(1)

\* Reached: the flushed step down from the smallest positive normal,
\* 2^-126, lands on zero and counts one ULP.
C21_Witness ==
  /\ pc = "measured"
  /\ args = [val |-> Fin(0, MinNormalMag, 0), dir |-> FALSE, flush |-> TRUE]
  /\ IsZero(ret[1].value)
  /\ ret[2] = Wide(1)

---------------------------------------------------------------------------
(* Specification SpecRangeCopies: a range generator of util/math.ts, then  *)
(* its copy in inversesqrt.spec.js on the same arguments.                  *)

CallInversesqrtCopy ==
  /\ pc = "done"
  /\ op \in {"linearRange", "biasedRange"}
  /\ pc' = "copied"
  /\ ret' = Append(ret,
              IF op = "linearRange"
              THEN inversesqrt_linearRange(args.min, args.max, args.num_steps)
              ELSE inversesqrt_biasedRange(args.min, args.max, args.num_steps))
  /\ UNCHANGED <<op, args>>

NextRangeCopies == CallLinearRange \/ CallBiasedRange \/ CallInversesqrtCopy

SpecRangeCopies == InitRange /\ [][NextRangeCopies]_vars

\* f32 min < max and u32 num_steps > 0
StrictRangeArgs ==
  /\ args.min.kind = "f32" /\ args.max.kind = "f32"
  /\ args.num_steps.kind = "u32"
  /\ QLess(args.min.value, args.max.value)
  /\ QLess(QInt(0), args.num_steps.value)

---------------------------------------------------------------------------
(* The large_dispatch test: specification SpecLargeDispatch runs the       *)
(* invocations of one dispatch in any order, then checks the buffer.  The  *)
(* dispatch and workgroup sizes are scaled down to MaxDispatchSize and     *)
(* MaxWorkgroupSize; the shader is the same for every size.                *)

MaxDispatchSize == 3
MaxWorkgroupSize == 2

\* 0x01020304 and 0xbaadf00d as two 16-bit halves
largeDispatchVal == [hi |-> 258, lo |-> 772]
largeDispatchBadVal == [hi |-> 47789, lo |-> 61453]
ZeroU32 == [hi |-> 0, lo |-> 0]

\* dispatchSize, largeDimension (0 = x, 1 = y, 2 = z) and workgroupSize,
\* whose largest value depends on the dimension.
LargeDispatchParams ==
  UNION {{[dispatchSize |-> n, largeDimension |-> d, workgroupSize |-> w] :
            n \in 1 .. MaxDispatchSize,
            w \in 1 .. (IF d = 2 THEN MaxWorkgroupSize
                                 ELSE MaxWorkgroupSize + 1)} :
         d \in 0 .. 2}

bufferLength(p) == p.dispatchSize * p.workgroupSize

\* dims and wgSizes: [1, 1, 1] with the large dimension replaced
\* (1-based here).
dims(p) == [i \in 1 .. 3 |-> IF i = p.largeDimension + 1 THEN p.dispatchSize ELSE 1]
wgSizes(p) == [i \in 1 .. 3 |-> IF i = p.largeDimension + 1 THEN p.workgroupSize ELSE 1]

\* The global invocation ids of pass.dispatch(dims[0], dims[1], dims[2]).
GlobalInvocationIDs(p) ==
  [x : 0 .. (dims(p)[1] * wgSizes(p)[1] - 1),
   y : 0 .. (dims(p)[2] * wgSizes(p)[2] - 1),
   z : 0 .. (dims(p)[3] * wgSizes(p)[3] - 1)]

main_dropsY(GlobalInvocationID, p) ==
  LET xExtent == dims(p)[1] * wgSizes(p)[1]
      yExtent == dims(p)[2] * wgSizes(p)[2]
      zExtent == dims(p)[3] * wgSizes(p)[3]
      index == GlobalInvocationID.z * xExtent * yExtent + GlobalInvocationID.x
  IN  [index |-> index,
       val   |-> IF \/ GlobalInvocationID.x > xExtent
                    \/ GlobalInvocationID.y > yExtent
                    \/ GlobalInvocationID.z > zExtent
                 THEN largeDispatchBadVal ELSE largeDispatchVal]

\* The shader's main: the index it writes and the value it writes there.
main(GlobalInvocationID, p) ==
  LET xExtent == dims(p)[1] * wgSizes(p)[1]
      yExtent == dims(p)[2] * wgSizes(p)[2]
      zExtent == dims(p)[3] * wgSizes(p)[3]
      index == GlobalInvocationID.z * xExtent * yExtent
                 + GlobalInvocationID.y * xExtent
                 + GlobalInvocationID.x
  IN  [index |-> index,
       val   |-> IF \/ GlobalInvocationID.x > xExtent
                    \/ GlobalInvocationID.y > yExtent
                    \/ GlobalInvocationID.z > zExtent
                 THEN largeDispatchBadVal ELSE largeDispatchVal]

\* ret holds the buffer dst, how often each element was written, how many
\* writes fell outside the buffer, the invocations that ran, and the
\* outcome of the final check.
InitLargeDispatch ==
  /\ pc = "dispatch"
  /\ op = "none"
  /\ args \in LargeDispatchParams
  /\ ret = [dst |-> [i \in 0 .. (bufferLength(args) - 1) |-> ZeroU32],
            writes |-> [i \in 0 .. (bufferLength(args) - 1) |-> 0],
            outOfBounds |-> 0,
            ran |-> {},
            passed |-> FALSE]

\* One invocation of the shader; a write outside the buffer is dropped.
Invoke ==
  /\ pc = "dispatch"
  /\ \E gid \in GlobalInvocationIDs(args) \ ret.ran :
       LET w == main(gid, args)
       IN  ret' = IF w.index < bufferLength(args)
                  THEN [ret EXCEPT !.dst[w.index] = w.val,
                                   !.writes[w.index] = @ + 1,
                                   !.ran = @ \cup {gid}]
                  ELSE [ret EXCEPT !.outOfBounds = @ + 1,
                                   !.ran = @ \cup {gid}]
  /\ op' = "main"
  /\ UNCHANGED <<pc, args>>

\* t.expectGPUBufferValuesPassCheck(dst, a => checkElementsEqualGenerated(
\* a, i => val), ..) once the dispatch has completed.
ExpectBufferValues ==
  /\ pc = "dispatch"
  /\ ret.ran = GlobalInvocationIDs(args)
  /\ pc' = "done"
  /\ op' = "expectGPUBufferValuesPassCheck"
  /\ ret' = [ret EXCEPT !.passed =
               \A i \in 0 .. (bufferLength(args) - 1) :
                 ret.dst[i] = largeDispatchVal]
  /\ UNCHANGED args

NextLargeDispatch == Invoke \/ ExpectBufferValues

SpecLargeDispatch == InitLargeDispatch /\ [][NextLargeDispatch]_vars

\* C23: for every dispatchSize, largeDimension and workgroupSize the
\* shader's index maps the global invocation ids one-to-one onto
\* 0 .. dispatchSize * workgroupSize - 1: no element is written twice, no
\* index is out of bounds, no invocation writes 0xbaadf00d, and when the
\* dispatch has completed every element has been written once and the
\* whole buffer equals 0x01020304.
C23_IndexIsBijection ==
  LET elements == 0 .. (bufferLength(args) - 1)
  IN  /\ ret.outOfBounds = 0
      /\ \A i \in elements :
           /\ ret.writes[i] <= 1
           /\ ret.dst[i] # largeDispatchBadVal
      /\ pc = "done" =>
           /\ \A i \in elements :
                ret.writes[i] = 1 /\ ret.dst[i] = largeDispatchVal
           /\ ret.passed

\* Reached: a completed dispatch of 3 workgroups of size 2 along y, all
\* 6 elements written once, and the check passed.
C23_Witness ==
  /\ pc = "done"
  /\ args = [dispatchSize |-> 3, largeDimension |-> 1, workgroupSize |-> 2]
  /\ Cardinality(ret.ran) = 6
  /\ \A i \in 0 .. 5 : ret.writes[i] = 1
  /\ ret.passed

---------------------------------------------------------------------------
(* getVideoElementAndInfo of the external texture video tests:             *)
(* specification SpecVideo runs it for one case of one of the three tests  *)
(* that call it.  ret holds the result of the lookup kVideoInfo[videoName]. *)

kVideoInfo ==
  [n \in {"four-colors-vp8-bt601.webm", "four-colors-theora-bt601.ogv",
          "four-colors-h264-bt601.mp4", "four-colors-vp9-bt601.webm",
          "four-colors-vp9-bt709.webm", "four-colors-vp9-bt2020.webm"} |->
     CASE n = "four-colors-vp8-bt601.webm" ->
            [colorSpace |-> "REC601", mimeType |-> "video/webm; codecs=vp8"]
       [] n = "four-colors-theora-bt601.ogv" ->
            [colorSpace |-> "REC601", mimeType |-> "video/ogg; codecs=theora"]
       [] n = "four-colors-h264-bt601.mp4" ->
            [colorSpace |-> "REC601",
             mimeType |-> "video/mp4; codecs=avc1.4d400c"]
       [] n = "four-colors-vp9-bt601.webm" ->
            [colorSpace |-> "REC601", mimeType |-> "video/webm; codecs=vp9"]
       [] n = "four-colors-vp9-bt709.webm" ->
            [colorSpace |-> "REC709", mimeType |-> "video/webm; codecs=vp9"]
       [] n = "four-colors-vp9-bt2020.webm" ->
            [colorSpace |-> "REC2020", mimeType |-> "video/webm; codecs=vp9"]]

\* The videoName of each entry of kVideoExpectations.
kVideoExpectations ==
  <<"four-colors-vp8-bt601.webm", "four-colors-theora-bt601.ogv",
    "four-colors-h264-bt601.mp4", "four-colors-vp9-bt601.webm",
    "four-colors-vp9-bt709.webm">>

\* The calls of getVideoElementAndInfo(t, sourceType, videoName) that the
\* three tests make, each with VideoFrame defined or not in the browser.
VideoCalls ==
  {[test |-> test, sourceType |-> sourceType,
    videoName |-> kVideoExpectations[i], hasVideoFrame |-> hasVideoFrame] :
     test \in {"importExternalTexture,sample", "importExternalTexture,compute"},
     sourceType \in {"VideoElement", "VideoFrame"},
     i \in 1 .. Len(kVideoExpectations), hasVideoFrame \in BOOLEAN}
  \cup
  {[test |-> "importExternalTexture,expired", sourceType |-> sourceType,
    videoName |-> "red-green.webmvp8.webm", hasVideoFrame |-> hasVideoFrame] :
     sourceType \in {"VideoElement", "VideoFrame"}, hasVideoFrame \in BOOLEAN}

InitVideo ==
  /\ pc = "sourceType"
  /\ op = "none"
  /\ args \in VideoCalls
  /\ ret = <<>>

\* if (sourceType === 'VideoFrame' && typeof VideoFrame === 'undefined')
\*   t.skip(..)
CheckSourceType ==
  /\ pc = "sourceType"
  /\ pc' = IF args.sourceType = "VideoFrame" /\ ~args.hasVideoFrame
           THEN "skipped" ELSE "lookup"
  /\ op' = "getVideoElementAndInfo"
  /\ UNCHANGED <<args, ret>>

\* const videoInfo = kVideoInfo[videoName]: undefined for a name that is
\* no key of the table.
LookupVideoInfo ==
  /\ pc = "lookup"
  /\ pc' = "canPlayType"
  /\ ret' = <<IF args.videoName \in DOMAIN kVideoInfo
              THEN [defined |-> TRUE, videoInfo |-> kVideoInfo[args.videoName]]
              ELSE [defined |-> FALSE]>>
  /\ UNCHANGED <<op, args>>

\* if (videoElement.canPlayType(videoInfo.mimeType) === '') t.skip(..):
\* reading mimeType of undefined throws a TypeError; the browser may or
\* may not play the type.
CanPlayType ==
  /\ pc = "canPlayType"
  /\ \E canPlay \in BOOLEAN :
       pc' = IF ~ret[1].defined THEN "TypeError"
             ELSE IF canPlay THEN "returned" ELSE "skipped"
  /\ UNCHANGED <<op, args, ret>>

NextVideo == CheckSourceType \/ LookupVideoInfo \/ CanPlayType

SpecVideo == InitVideo /\ [][NextVideo]_vars

LookedUp == op = "getVideoElementAndInfo" /\ Len(ret) = 1

\* C24 as claimed: every video name that a test passes to
\* getVideoElementAndInfo is a key of kVideoInfo, so that the lookup
\* kVideoInfo[videoName] yields a defined entry with a colorSpace and a
\* mimeType.
C24_EveryVideoNameIsAKey ==
  /\ op = "getVideoElementAndInfo" => args.videoName \in DOMAIN kVideoInfo
  /\ LookedUp =>
       /\ ret[1].defined
       /\ DOMAIN ret[1].videoInfo = {"colorSpace", "mimeType"}
  /\ pc # "TypeError"

\* Reached: the expired test's name 'red-green.webmvp8.webm' is no key,
\* the lookup is undefined and reading its mimeType throws.
C24_Witness ==
  /\ pc = "TypeError"
  /\ args.test = "importExternalTexture,expired"
  /\ args.videoName = "red-green.webmvp8.webm"
  /\ ret = <<[defined |-> FALSE]>>

\* What the code does keep of C24: the names of kVideoExpectations are
\* keys of kVideoInfo, and the calls of the sample and compute tests look
\* up a defined entry; the call of the expired test never does.
C24_HoldsForVideoExpectations ==
  /\ \A i \in 1 .. Len(kVideoExpectations) :
       kVideoExpectations[i] \in DOMAIN kVideoInfo
  /\ LookedUp =>
       IF args.test = "importExternalTexture,expired"
       THEN ~ret[1].defined
       ELSE /\ ret[1].defined
            /\ ret[1].videoInfo = kVideoInfo[args.videoName]
  /\ pc = "TypeError" => args.test = "importExternalTexture,expired"

=============================================================================
